---- MODULE Spec2Model ----
(***************************************************************************)
(* A model of tts_sdk/tts.py: the language catalog, the model cache and    *)
(* its loader, the two-stage language detector, the linear-interpolation   *)
(* time-stretch, the synthesizer and the two entry points.                 *)
(*                                                                         *)
(* External collaborators (the model hub, the two classifiers, tokenizer,  *)
(* inference and WAV encoding) are nondeterministic inputs of the actions. *)
(* Samples and speeds are exact rationals <<numerator, denominator>>, so   *)
(* floating-point rounding is not part of the model.                       *)
(***************************************************************************)
EXTENDS Integers, Sequences, FiniteSets, TLC

VARIABLES
    loaded_models,  \* the cache: a function from language code to <<model, tokenizer>>
    loads,          \* per catalog code, how many (model, tokenizer) pairs have been loaded
    result,         \* the last completed call of the sequential interface
    threads         \* per thread, its position inside a concurrent get_model call

vars == <<loaded_models, loads, result, threads>>

----------------------------------------------------------------------------
(* Bounds of the model. *)

MaxLen == 3          \* longest waveform drawn as an input
MaxSpeedNum == 3     \* speeds are p/q with |p| <= MaxSpeedNum
MaxSpeedDen == 3     \* and 1 <= q <= MaxSpeedDen
MaxFetches == 2      \* loads per language in the sequential interface
MaxCalls == 2        \* get_model calls per thread in the concurrent interface

----------------------------------------------------------------------------
(* The language catalog. *)

supported_languages ==
       ("hi" :> "facebook/mms-tts-hin")
    @@ ("en" :> "facebook/mms-tts-eng")
    @@ ("ta" :> "facebook/mms-tts-tam")
    @@ ("pa" :> "facebook/mms-tts-pan")
    @@ ("bn" :> "facebook/mms-tts-ben")
    @@ ("mr" :> "facebook/mms-tts-mar")
    @@ ("gu" :> "facebook/mms-tts-guj")
    @@ ("kn" :> "facebook/mms-tts-kan")
    @@ ("ml" :> "facebook/mms-tts-mal")
    @@ ("te" :> "facebook/mms-tts-tel")
    @@ ("or" :> "facebook/mms-tts-ory")
    @@ ("as" :> "facebook/mms-tts-asm")
    @@ ("ur" :> "facebook/mms-tts-urd")
    @@ ("sd" :> "facebook/mms-tts-snd")
    @@ ("kok" :> "facebook/mms-tts-kok")
    @@ ("sa" :> "facebook/mms-tts-san")
    @@ ("doi" :> "facebook/mms-tts-doi")
    @@ ("ne" :> "facebook/mms-tts-nep")
    @@ ("mai" :> "facebook/mms-tts-mai")
    @@ ("brx" :> "facebook/mms-tts-brx")
    @@ ("mni" :> "facebook/mms-tts-mni")
    @@ ("sat" :> "facebook/mms-tts-sat")
    @@ ("fr" :> "facebook/mms-tts-fra")
    @@ ("de" :> "facebook/mms-tts-deu")
    @@ ("es" :> "facebook/mms-tts-spa")
    @@ ("it" :> "facebook/mms-tts-ita")
    @@ ("pt" :> "facebook/mms-tts-por")
    @@ ("ru" :> "facebook/mms-tts-rus")
    @@ ("nl" :> "facebook/mms-tts-nld")
    @@ ("pl" :> "facebook/mms-tts-pol")
    @@ ("sv" :> "facebook/mms-tts-swe")
    @@ ("da" :> "facebook/mms-tts-dan")
    @@ ("fi" :> "facebook/mms-tts-fin")
    @@ ("no" :> "facebook/mms-tts-nor")
    @@ ("el" :> "facebook/mms-tts-ell")
    @@ ("zh" :> "facebook/mms-tts-zho")
    @@ ("ja" :> "facebook/mms-tts-jpn")
    @@ ("ko" :> "facebook/mms-tts-kor")
    @@ ("th" :> "facebook/mms-tts-tha")
    @@ ("vi" :> "facebook/mms-tts-vie")
    @@ ("ms" :> "facebook/mms-tts-msa")
    @@ ("id" :> "facebook/mms-tts-ind")
    @@ ("fil" :> "facebook/mms-tts-tgl")
    @@ ("ar" :> "facebook/mms-tts-ara")
    @@ ("tr" :> "facebook/mms-tts-tur")
    @@ ("fa" :> "facebook/mms-tts-fas")
    @@ ("he" :> "facebook/mms-tts-heb")
    @@ ("am" :> "facebook/mms-tts-amh")
    @@ ("sw" :> "facebook/mms-tts-swa")
    @@ ("yo" :> "facebook/mms-tts-yor")
    @@ ("ha" :> "facebook/mms-tts-hau")
    @@ ("ig" :> "facebook/mms-tts-ibo")
    @@ ("hu" :> "facebook/mms-tts-hun")
    @@ ("cs" :> "facebook/mms-tts-ces")
    @@ ("ro" :> "facebook/mms-tts-ron")
    @@ ("bg" :> "facebook/mms-tts-bul")
    @@ ("uk" :> "facebook/mms-tts-ukr")
    @@ ("sr" :> "facebook/mms-tts-srp")
    @@ ("hr" :> "facebook/mms-tts-hrv")
    @@ ("sk" :> "facebook/mms-tts-slk")

Catalog == DOMAIN supported_languages

\* Python's None, and the (None, None) that get_model returns on failure.
None == [kind |-> "None"]

NoHandle == <<None, None>>

----------------------------------------------------------------------------
(* Exact rational arithmetic for samples and sample positions. *)

Abs(x) == IF x < 0 THEN -x ELSE x

RECURSIVE GCD(_, _)
GCD(a, b) == IF b = 0 THEN a ELSE GCD(b, a % b)

\* n/d in lowest terms with a positive denominator (d # 0).
Rat(n, d) ==
    LET g == GCD(Abs(n), Abs(d))
        s == IF d < 0 THEN -1 ELSE 1
    IN  <<(s * n) \div g, (s * d) \div g>>

RatAdd(a, b) == Rat(a[1] * b[2] + b[1] * a[2], a[2] * b[2])

RatSub(a, b) == Rat(a[1] * b[2] - b[1] * a[2], a[2] * b[2])

RatMul(a, b) == Rat(a[1] * b[1], a[2] * b[2])

\* floor of a rational in normal form
RatFloor(a) == a[1] \div a[2]

\* int(a / b) of Python: the quotient truncated toward zero (b # 0).
TruncDivFloor(a, b) == IF b > 0 THEN a \div b ELSE (-a) \div (-b)

TruncDiv(a, b) ==
    LET q == Abs(a) \div Abs(b)
    IN  IF (a < 0) = (b < 0) THEN q ELSE -q

\* The outcome of a try block: the exception raised ("" for none) or a value.
Raise(exc) == [raised |-> exc, value |-> None]

Return(v) == [raised |-> "", value |-> v]

\* try: ... except Exception: return fallback
Propagate(r, fallback) == r

Catch(r, fallback) ==
    IF r.raised # "" THEN [r EXCEPT !.raised = "", !.value = fallback] ELSE r

----------------------------------------------------------------------------
(* time_stretch *)

\* speed == 1.0
IsUnitSpeed(speed) == speed[1] = speed[2]

\* int(len(waveform) / speed), for speed = p/q with p # 0
num_samples_scaled(n, speed) == TruncDiv(n * speed[1], speed[2])

num_samples(n, speed) == TruncDiv(n * speed[2], speed[1])

\* np.linspace(start, stop, num) for integers start, stop and num >= 0
linspace(start, stop, num) ==
    [i \in 1..num |->
        IF num = 1 THEN Rat(start, 1)
        ELSE Rat(start * (num - 1) + (i - 1) * (stop - start), num - 1)]

\* np.interp(x, np.arange(len(fp)), fp) at one position x in [0, len(fp) - 1]
interp_at(x, fp) ==
    LET k == RatFloor(x)
    IN  IF k >= Len(fp) - 1 THEN fp[Len(fp)]
        ELSE RatAdd(fp[k + 1],
                    RatMul(RatSub(x, Rat(k, 1)), RatSub(fp[k + 2], fp[k + 1])))

interp(x, fp) == [i \in 1..Len(x) |-> interp_at(x[i], fp)]

\* lines 150-151: resample waveform to n samples
resample(waveform, n) ==
    IF n < 0 THEN Raise("ValueError")                    \* np.linspace: negative num
    ELSE IF Len(waveform) = 0 THEN Raise("ValueError")   \* np.interp: empty xp
    ELSE Return(interp(linspace(0, Len(waveform) - 1, n), waveform))

\* the try block of time_stretch
time_stretch_try(waveform, speed) ==
    IF IsUnitSpeed(speed) THEN Return(waveform)
    ELSE IF speed[1] = 0 THEN Raise("ZeroDivisionError")
    ELSE resample(waveform, num_samples(Len(waveform), speed))

time_stretch(waveform, speed) == Catch(time_stretch_try(waveform, speed), waveform)

----------------------------------------------------------------------------
(* The model cache and its loader. *)

\* The process state the loader reads and writes: the cache, and per catalog
\* code the number of (model, tokenizer) pairs the hub has delivered in full.
World(cache, n) == [loaded_models |-> cache, loads |-> n]

\* lang not in loaded_models
NotCachedAlways(lang, cache) == TRUE

NotCached(lang, cache) == lang \notin DOMAIN cache

\* VitsModel.from_pretrained(supported_languages[lang]) followed by model.eval();
\* id tells the objects of different downloads apart
VitsModel_from_pretrained(lang, id) ==
    [kind |-> "VitsModel", name |-> supported_languages[lang], id |-> id,
     training |-> FALSE]

\* AutoTokenizer.from_pretrained(supported_languages[lang])
AutoTokenizer_from_pretrained(lang, id) ==
    [kind |-> "AutoTokenizer", name |-> supported_languages[lang], id |-> id]

\* a hub request, as the call's I/O log records it
HubRequest(cls, lang, ok) ==
    [cls |-> cls, name |-> supported_languages[lang], ok |-> ok]

\* a store that rebuilds the cache around the new entry
StoreFresh(cache, lang, model, tokenizer) ==
    [l \in {lang} |-> <<model, tokenizer>>]

\* a store that leaves the tokenizer out of the entry
StoreModelOnly(cache, lang, model, tokenizer) ==
    [l \in DOMAIN cache \cup {lang} |-> IF l = lang THEN <<model, None>> ELSE cache[l]]

\* loaded_models[lang] = (model, tokenizer)
Store(cache, lang, model, tokenizer) ==
    [l \in DOMAIN cache \cup {lang} |-> IF l = lang THEN <<model, tokenizer>> ELSE cache[l]]

\* what the hub does with the requests of one call
HubOutcomes == {"ok", "model_fetch_fails", "tokenizer_fetch_fails"}

\* The try block of get_model: the exception or the handle, the world after
\* it, and the hub requests made.
get_model_try(lang, w, hub) ==
    IF NotCached(lang, w.loaded_models)
    THEN IF lang \notin Catalog
         THEN [raised |-> "KeyError", value |-> None, world |-> w, io |-> <<>>]
         ELSE IF hub = "model_fetch_fails"
         THEN [raised |-> "Exception", value |-> None, world |-> w,
               io |-> <<HubRequest("VitsModel", lang, FALSE)>>]
         ELSE IF hub = "tokenizer_fetch_fails"
         THEN [raised |-> "Exception", value |-> None, world |-> w,
               io |-> <<HubRequest("VitsModel", lang, TRUE),
                        HubRequest("AutoTokenizer", lang, FALSE)>>]
         ELSE LET id == <<0, w.loads[lang] + 1>>
                  model == VitsModel_from_pretrained(lang, id)
                  tokenizer == AutoTokenizer_from_pretrained(lang, id)
                  cache == Store(w.loaded_models, lang, model, tokenizer)
              IN  [raised |-> "", value |-> cache[lang],
                   world |-> World(cache, [w.loads EXCEPT ![lang] = @ + 1]),
                   io |-> <<HubRequest("VitsModel", lang, TRUE),
                            HubRequest("AutoTokenizer", lang, TRUE)>>]
    ELSE [raised |-> "", value |-> w.loaded_models[lang], world |-> w, io |-> <<>>]

\* a loader that stores a fresh pair but returns a handle only on a cache hit
get_model_hit_only(lang, w, hub) ==
    IF NotCached(lang, w.loaded_models)
    THEN [Catch(get_model_try(lang, w, hub), NoHandle) EXCEPT !.value = NoHandle]
    ELSE Catch(get_model_try(lang, w, hub), NoHandle)

get_model(lang, w, hub) == Catch(get_model_try(lang, w, hub), NoHandle)

----------------------------------------------------------------------------
(* The language detector. *)

\* what a classifier does with a text: it returns a code or it raises
Classified(code) == [raised |-> FALSE, code |-> code]

ClassifierFails == [raised |-> TRUE, code |-> ""]

\* detected if detected in supported_languages else "unknown"
unvalidated(detected) == detected

validated(detected) == IF detected \in Catalog THEN detected ELSE "unknown"

\* The try block of detect_language; calls lists the classifiers consulted.
detect_language_try(text, primary, secondary) ==
    IF primary.raised
    THEN [raised |-> "Exception", value |-> None, calls |-> <<"classify">>]
    ELSE IF primary.code \in Catalog
    THEN [raised |-> "", value |-> primary.code, calls |-> <<"classify">>]
    ELSE IF secondary.raised
    THEN [raised |-> "Exception", value |-> None, calls |-> <<"classify", "detect">>]
    ELSE [raised |-> "", value |-> validated(secondary.code),
          calls |-> <<"classify", "detect">>]

\* a detector whose primary failure falls through to the secondary classifier
detect_language_fallthrough(text, primary, secondary) ==
    Catch(detect_language_try(text,
              IF primary.raised THEN Classified("") ELSE primary, secondary),
          "unknown")

detect_language(text, primary, secondary) ==
    Catch(detect_language_try(text, primary, secondary), "unknown")

----------------------------------------------------------------------------
(* The synthesizer and the entry points. *)

\* What the collaborators of one synthesize_audio call do: the hub, the first
\* step that raises ("none" when every step succeeds), and the waveform that
\* inference produces.
SynthFaults == {"none", "tokenize", "inference", "write"}

SampleRate == 16000

\* sf.write(audio_buffer, waveform, 16000, format="WAV"); audio_buffer.seek(0)
AudioBuffer(waveform) ==
    [kind |-> "BytesIO", format |-> "WAV", samplerate |-> SampleRate,
     channels |-> 1, frames |-> waveform, pos |-> 0]

\* synthesize_audio after get_model has answered h
synthesize_with(h, text, speed, env) ==
    LET base == [raised |-> "", value |-> None, world |-> h.world, io |-> h.io,
                 handle |-> h.value]
    IN  IF h.value[1] = None THEN base
        ELSE IF env.fault \in {"tokenize", "inference"}
        THEN [base EXCEPT !.raised = "Exception"]
        ELSE LET waveform == time_stretch(env.wave, speed).value
             IN  IF env.fault = "write" THEN [base EXCEPT !.raised = "Exception"]
                 ELSE [base EXCEPT !.value = AudioBuffer(waveform)]

\* The try block of synthesize_audio.
synthesize_audio_try(text, lang, speed, w, env) ==
    synthesize_with(get_model(lang, w, env.hub), text, speed, env)

\* a synthesizer without its except clause
synthesize_audio_uncaught(text, lang, speed, w, env) ==
    synthesize_audio_try(text, lang, speed, w, env)

synthesize_audio(text, lang, speed, w, env) ==
    Catch(synthesize_audio_try(text, lang, speed, w, env), None)

\* the result of an entry point that never reached the synthesizer
NotSynthesized(w) ==
    [raised |-> "", value |-> None, world |-> w, io |-> <<>>, handle |-> NoHandle]

\* speak once the detector has answered detected_lang
speak_detected(detected_lang, text, speed, w, env) ==
    IF detected_lang \in Catalog
    THEN synthesize_audio(text, detected_lang, speed, w, env)
    ELSE NotSynthesized(w)

\* The try block of speak.
speak_try(text, speed, w, primary, secondary, env) ==
    speak_detected(detect_language(text, primary, secondary).value, text, speed, w, env)

speak(text, speed, w, primary, secondary, env) ==
    Catch(speak_try(text, speed, w, primary, secondary, env), None)

\* The try block of speak_with_lang.
speak_with_lang_try(lang, text, speed, w, env) ==
    IF lang \notin Catalog THEN NotSynthesized(w)
    ELSE synthesize_audio(text, lang, speed, w, env)

speak_with_lang(lang, text, speed, w, env) ==
    Catch(speak_with_lang_try(lang, text, speed, w, env), None)

----------------------------------------------------------------------------
(* Inputs. *)

Langs == {"en", "fr", "xx"}

Texts == {"Hello world", "Bonjour tout le monde"}

\* codes the classifiers may answer: two catalog codes and two outside it
DetectedCodes == {"en", "fr", "zh-cn", "la"}

ClassifierOutcomes == {Classified(c) : c \in DetectedCodes} \cup {ClassifierFails}

Amplitudes == {-1, 1}

Waveforms == UNION {[1..n -> {Rat(a, 1) : a \in Amplitudes}] : n \in 0..MaxLen}

Speeds ==
    {s \in (-MaxSpeedNum..MaxSpeedNum) \X (1..MaxSpeedDen) : GCD(Abs(s[1]), s[2]) = 1}

\* the speeds and inferred waveforms of the end-to-end calls: normal, faster,
\* and the two speeds whose resampling raises
CallSpeeds == {<<1, 1>>, <<2, 1>>, <<0, 1>>, <<-1, 1>>}

CallWaves == {<<Rat(1, 1)>>, <<Rat(1, 1), Rat(-1, 1), Rat(1, 1)>>}

\* the environments of a synthesize_audio call; the waveform matters only
\* when no step raises
Envs ==
    [hub : HubOutcomes, fault : SynthFaults \ {"none"}, wave : {<<>>}]
    \cup [hub : HubOutcomes, fault : {"none"}, wave : CallWaves]

----------------------------------------------------------------------------
(* The sequential interface: one action per function that touches the cache. *)

NoLoads == [l \in Catalog |-> 0]

EmptyCache == [l \in {} |-> NoHandle]

IdleThread ==
    [pc |-> "idle", lang |-> "", model |-> None, tokenizer |-> None,
     ret |-> NoHandle, calls |-> 0, fetched |-> FALSE, failed |-> FALSE]

Threads == {1, 2}

Init ==
    /\ loaded_models = EmptyCache
    /\ loads = NoLoads
    /\ result = [op |-> "none"]
    /\ threads = [t \in Threads |-> IdleThread]

\* a call that would go to the hub is made only while the bound allows
MayResolve(lang) ==
    (lang \in Catalog /\ NotCached(lang, loaded_models)) => loads[lang] < MaxFetches

\* the state after a call that went through the loader
Synthesized(op, lang, r) ==
    /\ loaded_models' = r.world.loaded_models
    /\ loads' = r.world.loads
    /\ result' = [op |-> op, lang |-> lang, raised |-> r.raised, value |-> r.value,
                  handle |-> r.handle, io |-> r.io]
    /\ UNCHANGED threads

\* a get_model result, with the handle it answered as the call's handle
WithHandle(r) == [handle |-> r.value] @@ r

GetModel(lang, hub) ==
    /\ MayResolve(lang)
    /\ Synthesized("get_model", lang,
                   WithHandle(get_model(lang, World(loaded_models, loads), hub)))

SynthesizeAudio(text, lang, speed, env) ==
    /\ MayResolve(lang)
    /\ Synthesized("synthesize_audio", lang,
                   synthesize_audio(text, lang, speed, World(loaded_models, loads), env))

Speak(text, speed, primary, secondary, env) ==
    LET lang == detect_language(text, primary, secondary).value
    IN  /\ MayResolve(lang)
        /\ Synthesized("speak", lang,
                       speak(text, speed, World(loaded_models, loads),
                             primary, secondary, env))

SpeakWithLang(lang, text, speed, env) ==
    /\ MayResolve(lang)
    /\ Synthesized("speak_with_lang", lang,
                   speak_with_lang(lang, text, speed, World(loaded_models, loads), env))

Next ==
    \/ \E lang \in Langs, hub \in HubOutcomes : GetModel(lang, hub)
    \/ \E text \in Texts, lang \in Langs, speed \in CallSpeeds, env \in Envs :
          SynthesizeAudio(text, lang, speed, env)
    \/ \E text \in Texts, speed \in CallSpeeds, primary \in ClassifierOutcomes,
          secondary \in ClassifierOutcomes, env \in Envs :
          Speak(text, speed, primary, secondary, env)
    \/ \E lang \in Langs, text \in Texts, speed \in CallSpeeds, env \in Envs :
          SpeakWithLang(lang, text, speed, env)

Spec == Init /\ [][Next]_vars

----------------------------------------------------------------------------
(* The pure functions: the initial state draws the arguments, the action     *)
(* applies the function.                                                      *)

InitStretch ==
    /\ loaded_models = EmptyCache
    /\ loads = NoLoads
    /\ threads = [t \in Threads |-> IdleThread]
    /\ result \in [op : {"time_stretch"}, waveform : Waveforms, speed : Speeds,
                   done : {FALSE}, raised : {""}, value : {<<>>}]

TimeStretch ==
    /\ result.op = "time_stretch"
    /\ ~result.done
    /\ LET r == time_stretch(result.waveform, result.speed)
       IN  result' = [result EXCEPT !.done = TRUE, !.raised = r.raised,
                                    !.value = r.value]
    /\ UNCHANGED <<loaded_models, loads, threads>>

SpecStretch == InitStretch /\ [][TimeStretch]_vars

InitDetect ==
    /\ loaded_models = EmptyCache
    /\ loads = NoLoads
    /\ threads = [t \in Threads |-> IdleThread]
    /\ result \in [op : {"detect_language"}, text : Texts \cup {""},
                   primary : ClassifierOutcomes, secondary : ClassifierOutcomes,
                   done : {FALSE}, raised : {""}, value : {""}, calls : {<<>>}]

DetectLanguage ==
    /\ result.op = "detect_language"
    /\ ~result.done
    /\ LET r == detect_language(result.text, result.primary, result.secondary)
       IN  result' = [result EXCEPT !.done = TRUE, !.raised = r.raised,
                                    !.value = r.value, !.calls = r.calls]
    /\ UNCHANGED <<loaded_models, loads, threads>>

SpecDetect == InitDetect /\ [][DetectLanguage]_vars

----------------------------------------------------------------------------
(* Concurrent get_model calls: each thread runs the body of get_model one    *)
(* statement at a time; a dictionary lookup or store is one atomic step.     *)

\* get_model(lang) is entered
Call(t, lang) ==
    /\ threads[t].pc = "idle"
    /\ threads[t].calls < MaxCalls
    /\ threads' = [threads EXCEPT ![t] =
                     [IdleThread EXCEPT !.pc = "check", !.lang = lang,
                                        !.calls = threads[t].calls + 1]]
    /\ UNCHANGED <<loaded_models, loads, result>>

\* if lang not in loaded_models
Check(t) ==
    /\ threads[t].pc = "check"
    /\ threads' = [threads EXCEPT ![t].pc =
                     IF NotCached(threads[t].lang, loaded_models)
                     THEN "lookup" ELSE "return"]
    /\ UNCHANGED <<loaded_models, loads, result>>

\* supported_languages[lang]: a KeyError ends the call with (None, None)
Lookup(t) ==
    /\ threads[t].pc = "lookup"
    /\ threads' = [threads EXCEPT ![t] =
                     IF threads[t].lang \in Catalog
                     THEN [@ EXCEPT !.pc = "fetch_model"]
                     ELSE [@ EXCEPT !.pc = "done", !.failed = TRUE, !.ret = NoHandle]]
    /\ UNCHANGED <<loaded_models, loads, result>>

\* model = VitsModel.from_pretrained(...)
FetchModel(t, ok) ==
    /\ threads[t].pc = "fetch_model"
    /\ threads' = [threads EXCEPT ![t] =
                     IF ok
                     THEN [@ EXCEPT !.pc = "fetch_tokenizer",
                                    !.model = VitsModel_from_pretrained(
                                                  threads[t].lang, <<t, threads[t].calls>>)]
                     ELSE [@ EXCEPT !.pc = "done", !.failed = TRUE, !.ret = NoHandle]]
    /\ UNCHANGED <<loaded_models, loads, result>>

\* tokenizer = AutoTokenizer.from_pretrained(...); model.eval()
FetchTokenizer(t, ok) ==
    /\ threads[t].pc = "fetch_tokenizer"
    /\ threads' = [threads EXCEPT ![t] =
                     IF ok
                     THEN [@ EXCEPT !.pc = "store", !.fetched = TRUE,
                                    !.tokenizer = AutoTokenizer_from_pretrained(
                                                      threads[t].lang, <<t, threads[t].calls>>)]
                     ELSE [@ EXCEPT !.pc = "done", !.failed = TRUE, !.ret = NoHandle]]
    /\ loads' = IF ok THEN [loads EXCEPT ![threads[t].lang] = @ + 1] ELSE loads
    /\ UNCHANGED <<loaded_models, result>>

\* loaded_models[lang] = (model, tokenizer)
StoreEntry(t) ==
    /\ threads[t].pc = "store"
    /\ loaded_models' = Store(loaded_models, threads[t].lang,
                              threads[t].model, threads[t].tokenizer)
    /\ threads' = [threads EXCEPT ![t].pc = "return"]
    /\ UNCHANGED <<loads, result>>

\* return loaded_models[lang]
ReturnEntry(t) ==
    /\ threads[t].pc = "return"
    /\ threads' = [threads EXCEPT ![t] =
                     IF threads[t].lang \in DOMAIN loaded_models
                     THEN [@ EXCEPT !.pc = "done", !.ret = loaded_models[threads[t].lang]]
                     ELSE [@ EXCEPT !.pc = "done", !.failed = TRUE, !.ret = NoHandle]]
    /\ UNCHANGED <<loaded_models, loads, result>>

\* the caller takes the result; the thread is free for its next call
Finish(t) ==
    /\ threads[t].pc = "done"
    /\ threads' = [threads EXCEPT ![t] = [IdleThread EXCEPT !.calls = threads[t].calls]]
    /\ UNCHANGED <<loaded_models, loads, result>>

NextConc ==
    \/ \E t \in Threads, lang \in Langs : Call(t, lang)
    \/ \E t \in Threads : Check(t)
    \/ \E t \in Threads : Lookup(t)
    \/ \E t \in Threads, ok \in BOOLEAN : FetchModel(t, ok)
    \/ \E t \in Threads, ok \in BOOLEAN : FetchTokenizer(t, ok)
    \/ \E t \in Threads : StoreEntry(t)
    \/ \E t \in Threads : ReturnEntry(t)
    \/ \E t \in Threads : Finish(t)

SpecConc == Init /\ [][NextConc]_vars

----------------------------------------------------------------------------
(* Properties. *)

\* h is a complete (model, tokenizer) pair of one load of lang's catalog entry
IsHandleFor(h, lang) ==
    /\ h[1].kind = "VitsModel"
    /\ h[2].kind = "AutoTokenizer"
    /\ h[1].name = supported_languages[lang]
    /\ h[2].name = supported_languages[lang]
    /\ h[1].id = h[2].id

\* every hub request of a call was answered (vacuously: the call made none)
AllOk(io) == \A i \in DOMAIN io : io[i].ok

C2_CachedHandleIsReused ==
    /\ [](\A l \in Catalog : loads[l] <= 1)
    /\ [][\A l \in DOMAIN loaded_models :
            /\ l \in DOMAIN loaded_models'
            /\ loaded_models'[l] = loaded_models[l]
            /\ loads'[l] = loads[l]
            /\ result'.lang = l => /\ result'.handle = loaded_models[l]
                                   /\ result'.io = <<>>]_vars

\* both catalog codes of the inputs are cached and a get_model call hit the cache
C2_Witness ==
    /\ result.op = "get_model"
    /\ Cardinality(DOMAIN loaded_models) = 2
    /\ result.io = <<>>
    /\ result.handle = loaded_models[result.lang]
    /\ loads[result.lang] = 1

\* C3: for a code outside the catalog, get_model returns (None, None), makes no
\* hub request, raises nothing, and leaves the cache as it was.
C3_UnsupportedIsEmpty ==
    [][(result'.op = "get_model" /\ result'.lang \notin Catalog)
          => /\ result'.raised = ""
             /\ result'.value = NoHandle
             /\ result'.io = <<>>
             /\ loaded_models' = loaded_models
             /\ loads' = loads]_vars

\* an unsupported code is asked for while the cache holds an entry
C3_Witness ==
    /\ result.op = "get_model"
    /\ result.lang \notin Catalog
    /\ result.value = NoHandle
    /\ DOMAIN loaded_models # {}

\* C4: whatever the two classifiers answer, detect_language returns a catalog
\* code or "unknown".
C4_DetectedIsValidated ==
    (result.op = "detect_language" /\ result.done)
        => result.value \in Catalog \cup {"unknown"}

\* both classifiers answer codes outside the catalog
C4_Witness ==
    /\ result.op = "detect_language"
    /\ result.done
    /\ result.primary = Classified("la")
    /\ result.secondary = Classified("zh-cn")
    /\ result.value = "unknown"

C6_BufferOrNone ==
    (result.op \in {"synthesize_audio", "speak", "speak_with_lang"})
        => /\ result.raised = ""
           /\ \/ result.value.kind = "None"
              \/ /\ result.value.kind = "BytesIO"
                 /\ result.value.samplerate = 16000
                 /\ result.value.pos = 0
           /\ result.handle[1].kind = "None" => result.value.kind = "None"

\* the model was resolved, a later step raised, and the call returned None
C6_Witness ==
    /\ result.op = "synthesize_audio"
    /\ IsHandleFor(result.handle, result.lang)
    /\ result.value.kind = "None"
    /\ result.raised = ""

C8_ConcurrentLoadsKeepCacheSound ==
    /\ [](\A l \in DOMAIN loaded_models :
             l \in Catalog /\ IsHandleFor(loaded_models[l], l))
    /\ [](\A t \in Threads :
             (threads[t].pc = "done" /\ ~threads[t].failed)
                 => /\ threads[t].lang \in Catalog
                    /\ IsHandleFor(threads[t].ret, threads[t].lang))
    /\ [][\A l \in DOMAIN loaded_models \cup DOMAIN loaded_models' :
            \/ /\ l \in DOMAIN loaded_models
               /\ l \in DOMAIN loaded_models'
               /\ loaded_models'[l] = loaded_models[l]
            \/ /\ l \in DOMAIN loaded_models'
               /\ \E t \in Threads :
                     /\ threads[t].pc = "store"
                     /\ threads'[t].pc = "return"
                     /\ threads[t].lang = l
                     /\ loaded_models'[l] = <<threads[t].model, threads[t].tokenizer>>]_vars

\* both threads found the same code uncached, both loaded it, and each has
\* returned the pair it stored itself while a second code sits in the cache
C8_Witness ==
    /\ threads[1].pc = "done"
    /\ threads[2].pc = "done"
    /\ threads[1].lang = threads[2].lang
    /\ threads[1].fetched
    /\ threads[2].fetched
    /\ threads[1].ret # threads[2].ret
    /\ Cardinality(DOMAIN loaded_models) = 2

\* C9: every cache key is a catalog code mapped to a complete pair, no entry is
\* ever removed, a call with a failed fetch leaves the cache as it was, and a
\* call for a catalog code that is not cached asks the hub for the model.
C9_CacheHoldsOnlyCompleteEntries ==
    /\ [](\A l \in DOMAIN loaded_models :
             l \in Catalog /\ IsHandleFor(loaded_models[l], l))
    /\ [][/\ DOMAIN loaded_models \subseteq DOMAIN loaded_models'
          /\ ~AllOk(result'.io) => /\ loaded_models' = loaded_models
                                   /\ result'.handle = NoHandle
          /\ (result'.lang \in Catalog /\ result'.lang \notin DOMAIN loaded_models)
                => /\ result'.io # <<>>
                   /\ result'.io[1].cls = "VitsModel"
                   /\ result'.io[1].name = supported_languages[result'.lang]]_vars

\* with one code cached, the tokenizer fetch of the other code has just failed
C9_Witness ==
    /\ result.op = "get_model"
    /\ Len(result.io) = 2
    /\ ~result.io[2].ok
    /\ result.lang \notin DOMAIN loaded_models
    /\ DOMAIN loaded_models # {}

\* C10 as stated: for a speed of zero or below, time_stretch returns the
\* waveform it was given and raises nothing.
C10_Original ==
    (result.op = "time_stretch" /\ result.done /\ result.speed[1] <= 0)
        => /\ result.value = result.waveform
           /\ result.raised = ""

\* C10, amended: time_stretch raises nothing; for speed zero, and for a
\* negative speed p/q with len(w) * q >= |p| or w empty, it returns the
\* waveform it was given; for a negative speed with 0 < len(w) * q < |p| it
\* returns an empty waveform.
C10_NonPositiveSpeed ==
    (result.op = "time_stretch" /\ result.done /\ result.speed[1] <= 0)
        => /\ result.raised = ""
           /\ result.value =
                (IF result.speed[1] < 0 /\ Len(result.waveform) > 0
                    /\ Len(result.waveform) * result.speed[2] < -result.speed[1]
                 THEN <<>> ELSE result.waveform)

\* one sample at speed -2 comes back as no sample at all
C10_Witness ==
    /\ result.op = "time_stretch"
    /\ result.done
    /\ result.speed = <<-2, 1>>
    /\ Len(result.waveform) = 1
    /\ result.value = <<>>

====
